---- MODULE Spec2Model ----
(***************************************************************************)
(* Model of openmm/amberff/buildSystem.py: a one-shot command line script  *)
(* that resolves a compute platform, picks a parser from the structure     *)
(* file's extension, strips and re-adds hydrogens, derives the output file *)
(* name, moves any file already at that name to a numbered backup          *)
(* (get_filename) and writes the result.                                   *)
(*                                                                         *)
(* Strings are sequences of one-character strings so that splitext,        *)
(* endswith and str.format are computed, not assumed.  Optional values     *)
(* (argparse defaults of None, os.getenv results) are records              *)
(* [some, val].  The file system is a partial function from path names to  *)
(* directory entries; an entry carries an inode number so that a rename    *)
(* moves the file an open handle refers to (POSIX semantics).              *)
(***************************************************************************)
EXTENDS Integers, Sequences, FiniteSets, TLC

(***************************************************************************)
(* Bounds of the model                                                     *)
(***************************************************************************)
\* longest stem (over StemChars) put in front of an extension
MaxStem == 2
\* backup names '#<path>.<n>#', n in 1..MaxBackups, may be occupied initially
MaxBackups == 2
\* atoms in the parsed structure
MaxAtoms == 2
\* hydrogens the toolkit's addHydrogens may add
MaxNewH == 1
\* successive runs of the script against the same output path
MaxRuns == 3

(***************************************************************************)
(* Strings                                                                 *)
(***************************************************************************)
NoneV == [some |-> FALSE, val |-> <<>>]

Some(s) == [some |-> TRUE, val |-> s]

\* Python truthiness of an optional string: None and '' are both falsy
Truthy(o) == o.some /\ o.val # <<>>

\* str.endswith
EndsWith(s, suf) ==
    /\ Len(s) >= Len(suf)
    /\ SubSeq(s, Len(s) - Len(suf) + 1, Len(s)) = suf

\* str.rfind of a single character, 1-based, 0 when absent
RFind(s, c) ==
    LET hits == {i \in 1..Len(s) : s[i] = c}
    IN  IF hits = {} THEN 0 ELSE CHOOSE i \in hits : \A j \in hits : j <= i

\* os.path.splitext (posixpath): the extension starts at the last dot of the
\* last path component, unless that component has only leading dots before it
splitext(p) ==
    LET sepIndex == RFind(p, "/")
        dotIndex == RFind(p, ".")
        split == /\ dotIndex > sepIndex
                 /\ \E k \in (sepIndex + 1)..(dotIndex - 1) : p[k] # "."
    IN  IF split
        THEN <<SubSeq(p, 1, dotIndex - 1), SubSeq(p, dotIndex, Len(p))>>
        ELSE <<p, <<>> >>

DigitChars == <<"0", "1", "2", "3", "4", "5", "6", "7", "8", "9">>

\* '{}'.format(num) for a non-negative integer
RECURSIVE Decimal(_)
Decimal(n) ==
    IF n < Len(DigitChars)
    THEN <<DigitChars[n + 1]>>
    ELSE Decimal(n \div Len(DigitChars)) \o <<DigitChars[(n % Len(DigitChars)) + 1]>>

\* '#{}.{}#'.format(rootname, num)
BackupName(rootname, num) ==
    <<"#">> \o rootname \o <<".">> \o Decimal(num) \o <<"#">>

\* the directory part of a path, with its trailing slash; <<>> is the cwd
ParentDir(p) == SubSeq(p, 1, RFind(p, "/"))

PDB == <<".", "p", "d", "b">>

CIF == <<".", "c", "i", "f">>

HCIF == <<"_", "H">> \o CIF

(***************************************************************************)
(* Pure parts of the script                                                *)
(***************************************************************************)
\* mutant of ParserFor: the extension is compared without regard to case
ParserFor_AnyCase(fext) ==
    IF fext \in {PDB, <<".", "P", "D", "B">>} THEN "PDBFile"
    ELSE IF fext \in {CIF, <<".", "C", "I", "F">>} THEN "PDBxFile"
    ELSE "none"

\* lines 99-106: the parser chosen for an extension, "none" when unsupported
ParserFor(fext) ==
    IF fext = PDB THEN "PDBFile"
    ELSE IF fext = CIF THEN "PDBxFile"
    ELSE "none"

\* mutant of OutputPath: tests "output is not None" instead of "output"
OutputPath_IsNotNone(output, fname) ==
    IF output.some
    THEN IF ~EndsWith(output.val, CIF) THEN output.val \o CIF ELSE output.val
    ELSE fname \o HCIF

\* lines 122-128: the name handed to get_filename
OutputPath(output, fname) ==
    IF Truthy(output)
    THEN IF ~EndsWith(output.val, CIF) THEN output.val \o CIF ELSE output.val
    ELSE fname \o HCIF

KnownPlatforms == {"Reference", "CPU", "CUDA", "OpenCL"}

\* mutant of PlatformProperties: tests the variables with "is not None"
PlatformProperties_IsNotNone(platform, gpu_ids, cpu_threads) ==
    IF ~platform.some THEN {}
    ELSE IF platform.val = "CUDA"
    THEN {<<"CudaPrecision", <<"m", "i", "x", "e", "d">> >>}
         \cup (IF gpu_ids.some THEN {<<"DeviceIndex", gpu_ids.val>>} ELSE {})
    ELSE IF platform.val = "CPU"
    THEN IF cpu_threads.some THEN {<<"Threads", cpu_threads.val>>} ELSE {}
    ELSE {}

\* lines 80-96: platform is the name of the resolved platform object, or None
PlatformProperties(platform, gpu_ids, cpu_threads) ==
    IF ~platform.some THEN {}
    ELSE IF platform.val = "CUDA"
    THEN {<<"CudaPrecision", <<"m", "i", "x", "e", "d">> >>}
         \cup (IF Truthy(gpu_ids) THEN {<<"DeviceIndex", gpu_ids.val>>} ELSE {})
    ELSE IF platform.val = "CPU"
    THEN IF Truthy(cpu_threads) THEN {<<"Threads", cpu_threads.val>>} ELSE {}
    ELSE {}

\* mutant of Hydrogens: the first atom of the topology is skipped
Hydrogens_SkipFirst(atoms) == {a \in atoms : a.element = "H" /\ a.id > 1}

\* line 117: the atoms selected for deletion
Hydrogens(atoms) == {a \in atoms : a.element = "H"}

(***************************************************************************)
(* State                                                                   *)
(***************************************************************************)
VARIABLES
    cmd,        \* argparse result: structure, output, platform (lines 50-64)
    env,        \* CUDA_VISIBLE_DEVICES and SLURM_CPUS_PER_TASK (lines 89, 94)
    fileAtoms,  \* the atoms stored in the structure file
    fs,         \* path name -> directory entry, for the entries that exist
    dirs,       \* the directories that exist (the cwd, <<>>, always does)
    nextIno,    \* next unused inode number
    run,        \* per invocation: the script's variables and its position
    fs0,        \* history: fs before any invocation started
    raced       \* history: a file system call ran while another invocation
                \* was between its first isfile probe and its close

vars == <<cmd, env, fileAtoms, fs, dirs, nextIno, run, fs0, raced>>

\* two invocations of the script may share the file system
Procs == {1, 2}

\* addHydrogens(forcefield=forcefield, pH=7.0); 7 stands for 7.0
TargetPH == 7

NoPlatform == [some |-> FALSE, val |-> ""]

Empty == <<"empty", 0, 0>>

\* what invocation p writes in its k-th run
OutputOf(p, k) == <<"out", p, k>>

\* the extension and stem the script computes on line 99
Fname == splitext(cmd.structure)[1]

Fext == splitext(cmd.structure)[2]

\* the path every invocation hands to get_filename
Root == OutputPath(cmd.output, Fname)

(***************************************************************************)
(* File system calls                                                       *)
(***************************************************************************)
DirExists(ds, d) == d = <<>> \/ d \in ds

\* mutant of isfile: os.path.isdir is called instead
isfile_AsIsdir(fsys, name) == name \in DOMAIN fsys /\ fsys[name].kind = "dir"

\* os.path.isfile: true for a regular file (symbolic links followed), false
\* for a missing name, a directory, or any other kind of entry
isfile(fsys, name) == name \in DOMAIN fsys /\ fsys[name].kind = "reg"

\* os.rename on POSIX: fails when the source is missing, when the target's
\* directory is missing, or when a non-directory would replace a directory;
\* otherwise the target name, whatever was there, now refers to the source
RenameFails(fsys, ds, src, dst) ==
    \/ src \notin DOMAIN fsys
    \/ ~DirExists(ds, ParentDir(dst))
    \/ /\ dst \in DOMAIN fsys
       /\ (fsys[dst].kind = "dir") # (fsys[src].kind = "dir")

\* mutant of Renamed: the source name is left in place (os.link)
Renamed_KeepsSource(fsys, src, dst) ==
    [n \in DOMAIN fsys \cup {dst} |-> IF n = dst THEN fsys[src] ELSE fsys[n]]

Renamed(fsys, src, dst) ==
    [n \in (DOMAIN fsys \ {src}) \cup {dst} |->
        IF n = dst THEN fsys[src] ELSE fsys[n]]

\* open(name, 'w'): fails on a directory; truncates a regular file; creates
\* a missing one; opens any other entry without changing the directory
OpenFails(fsys, ds, name) ==
    \/ ~DirExists(ds, ParentDir(name))
    \/ name \in DOMAIN fsys /\ fsys[name].kind = "dir"

Opened(fsys, name, ino) ==
    IF name \in DOMAIN fsys
    THEN IF fsys[name].kind = "reg"
         THEN [fsys EXCEPT ![name].data = Empty]
         ELSE fsys
    ELSE [n \in DOMAIN fsys \cup {name} |->
            IF n = name THEN [kind |-> "reg", data |-> Empty, ino |-> ino]
            ELSE fsys[n]]

\* the inode an open of name refers to
HandleOf(fsys, name, ino) ==
    IF name \in DOMAIN fsys THEN fsys[name].ino ELSE ino

\* writeFile followed by close: the data lands in the open inode, under
\* whatever names refer to it by then
Written(fsys, ino, data) ==
    [n \in DOMAIN fsys |->
        IF fsys[n].ino = ino /\ fsys[n].kind = "reg"
        THEN [fsys[n] EXCEPT !.data = data]
        ELSE fsys[n]]

(***************************************************************************)
(* The script, one action per step                                         *)
(***************************************************************************)
\* mutant of StageAfter: the output name is derived and the old file moved
\* before the structure is read
StageAfter_RenameFirst(stage) ==
    CASE stage = "platform" -> "properties"
      [] stage = "properties" -> "dispatch"
      [] stage = "dispatch" -> "derive"
      [] stage = "derive" -> "gf_check"
      [] stage = "gf_check" -> "read"
      [] stage = "gf_rename" -> "read"
      [] stage = "read" -> "forcefield"
      [] stage = "forcefield" -> "delete"
      [] stage = "delete" -> "addH"
      [] stage = "addH" -> "open"
      [] stage = "open" -> "write"
      [] stage = "write" -> "done"

\* the module-level statements run top to bottom (lines 64-133)
StageAfter(stage) ==
    CASE stage = "platform" -> "properties"
      [] stage = "properties" -> "dispatch"
      [] stage = "dispatch" -> "read"
      [] stage = "read" -> "forcefield"
      [] stage = "forcefield" -> "delete"
      [] stage = "delete" -> "addH"
      [] stage = "addH" -> "derive"
      [] stage = "derive" -> "gf_check"
      [] stage = "gf_check" -> "open"
      [] stage = "gf_rename" -> "open"
      [] stage = "open" -> "write"
      [] stage = "write" -> "done"

Step(p, r) ==
    run' = [run EXCEPT ![p] = [r EXCEPT !.pc = StageAfter(run[p].pc),
                                        !.trace = Append(@, run[p].pc)]]

\* an uncaught exception: traceback, exit status 1
Crash(p) ==
    run' = [run EXCEPT ![p].pc = "crashed", ![p].failedAt = run[p].pc,
                       ![p].exit = 1]

\* the invocations other than p that are inside get_filename .. close
Overlaps(p) ==
    \E q \in Procs \ {p} :
        run[q].pc \in {"gf_probe", "gf_rename", "open", "write"}

\* lines 70-71: getPlatformByName raises for a name the installation lacks
ResolvePlatform(p) ==
    /\ run[p].pc = "platform"
    /\ IF ~cmd.platform.some
       THEN Step(p, run[p])
       ELSE \E found \in (IF cmd.platform.val \in KnownPlatforms
                          THEN BOOLEAN ELSE {FALSE}) :
                IF found
                THEN Step(p, [run[p] EXCEPT !.platform = cmd.platform])
                ELSE Crash(p)
    /\ UNCHANGED <<cmd, env, fileAtoms, fs, dirs, nextIno, fs0, raced>>

\* lines 80-96
SetProperties(p) ==
    /\ run[p].pc = "properties"
    /\ Step(p, [run[p] EXCEPT !.properties =
            PlatformProperties(run[p].platform, env.CUDA_VISIBLE_DEVICES,
                               env.SLURM_CPUS_PER_TASK)])
    /\ UNCHANGED <<cmd, env, fileAtoms, fs, dirs, nextIno, fs0, raced>>

\* lines 99-106
Dispatch(p) ==
    /\ run[p].pc = "dispatch"
    /\ LET r == [run[p] EXCEPT !.fname = Fname, !.fext = Fext,
                               !.parser = ParserFor(Fext)]
       IN  IF r.parser = "none"
           THEN run' = [run EXCEPT ![p] = [r EXCEPT !.pc = "exit1",
                            !.failedAt = "dispatch",
                            !.logged = TRUE, !.exit = 1]]
           ELSE Step(p, r)
    /\ UNCHANGED <<cmd, env, fileAtoms, fs, dirs, nextIno, fs0, raced>>

\* line 109: the parser returns the file's atoms, or raises
ReadStructure(p) ==
    /\ run[p].pc = "read"
    /\ \E ok \in BOOLEAN :
        IF ok THEN Step(p, [run[p] EXCEPT !.structure = fileAtoms])
        ELSE Crash(p)
    /\ UNCHANGED <<cmd, env, fileAtoms, fs, dirs, nextIno, fs0, raced>>

\* lines 110-111: the force field loads or raises; the Modeller gets the
\* structure's topology
LoadForcefield(p) ==
    /\ run[p].pc = "forcefield"
    /\ \E ok \in BOOLEAN :
        IF ok THEN Step(p, [run[p] EXCEPT !.atoms = run[p].structure])
        ELSE Crash(p)
    /\ UNCHANGED <<cmd, env, fileAtoms, fs, dirs, nextIno, fs0, raced>>

\* lines 116-118
DeleteHydrogens(p) ==
    /\ run[p].pc = "delete"
    /\ Step(p, [run[p] EXCEPT !.atoms = @ \ Hydrogens(@)])
    /\ UNCHANGED <<cmd, env, fileAtoms, fs, dirs, nextIno, fs0, raced>>

\* line 119: the toolkit adds some new hydrogens, or raises
AddHydrogens(p) ==
    /\ run[p].pc = "addH"
    /\ LET r == [run[p] EXCEPT !.atomsAtAdd = run[p].atoms, !.pH = TargetPH]
       IN  \E k \in (0 - 1)..MaxNewH :
            IF k >= 0
            THEN Step(p, [r EXCEPT !.atoms = @ \cup
                    {[id |-> MaxAtoms + i, element |-> "H"] : i \in 1..k}])
            ELSE run' = [run EXCEPT ![p] = [r EXCEPT !.pc = "crashed",
                            !.failedAt = "addH", !.exit = 1]]
    /\ UNCHANGED <<cmd, env, fileAtoms, fs, dirs, nextIno, fs0, raced>>

\* lines 122-130: _fname, then the call of get_filename(_fname)
DeriveOutput(p) ==
    /\ run[p].pc = "derive"
    /\ LET f == OutputPath(cmd.output, run[p].fname)
       IN  Step(p, [run[p] EXCEPT !.outname = f, !.name = f])
    /\ UNCHANGED <<cmd, env, fileAtoms, fs, dirs, nextIno, fs0, raced>>

\* lines 34-38
GF_Check(p) ==
    /\ run[p].pc = "gf_check"
    /\ IF ~isfile(fs, run[p].name)
       THEN Step(p, [run[p] EXCEPT !.cif_fname = run[p].name])
       ELSE run' = [run EXCEPT ![p] = [@ EXCEPT !.pc = "gf_probe",
                        !.trace = Append(@, "gf_check"),
                        !.rootname = run[p].name, !.num = 1]]
    /\ raced' = (raced \/ Overlaps(p))
    /\ UNCHANGED <<cmd, env, fileAtoms, fs, dirs, nextIno, fs0>>

\* lines 39-43: one turn of the loop that does not end it
GF_Probe(p) ==
    /\ run[p].pc = "gf_probe"
    /\ LET candidate == BackupName(run[p].rootname, run[p].num)
       IN  run' = [run EXCEPT ![p] = [@ EXCEPT
                !.name = candidate,
                !.probes = @ + 1,
                !.num = IF isfile(fs, candidate) THEN @ + 1 ELSE @,
                !.pc = IF isfile(fs, candidate) THEN "gf_probe"
                       ELSE "gf_rename"]]
    /\ raced' = (raced \/ Overlaps(p))
    /\ UNCHANGED <<cmd, env, fileAtoms, fs, dirs, nextIno, fs0>>

\* lines 44-46
GF_Rename(p) ==
    /\ run[p].pc = "gf_rename"
    /\ IF RenameFails(fs, dirs, run[p].rootname, run[p].name)
       THEN /\ Crash(p)
            /\ fs' = fs
       ELSE /\ fs' = Renamed(fs, run[p].rootname, run[p].name)
            /\ Step(p, [run[p] EXCEPT !.renames = @ + 1,
                            !.renamedTo = run[p].name,
                            !.cif_fname = run[p].rootname])
    /\ raced' = (raced \/ Overlaps(p))
    /\ UNCHANGED <<cmd, env, fileAtoms, dirs, nextIno, fs0>>

\* lines 131-132
OpenOutput(p) ==
    /\ run[p].pc = "open"
    /\ IF OpenFails(fs, dirs, run[p].cif_fname)
       THEN /\ Crash(p)
            /\ UNCHANGED <<fs, nextIno>>
       ELSE /\ fs' = Opened(fs, run[p].cif_fname, nextIno)
            /\ nextIno' = nextIno + 1
            /\ Step(p, [run[p] EXCEPT !.handle =
                            HandleOf(fs, run[p].cif_fname, nextIno)])
    /\ raced' = (raced \/ Overlaps(p))
    /\ UNCHANGED <<cmd, env, fileAtoms, dirs, fs0>>

\* line 133 and the end of the with block; the script then ends, status 0
WriteOutput(p) ==
    /\ run[p].pc = "write"
    /\ fs' = Written(fs, run[p].handle, OutputOf(p, run[p].runNo))
    /\ Step(p, [run[p] EXCEPT !.exit = 0])
    /\ raced' = (raced \/ Overlaps(p))
    /\ UNCHANGED <<cmd, env, fileAtoms, dirs, nextIno, fs0>>

(***************************************************************************)
(* Initial states                                                          *)
(***************************************************************************)
Fresh(pc) ==
    [pc |-> pc, platform |-> NoPlatform, properties |-> {}, parser |-> "",
     fname |-> <<>>, fext |-> <<>>, structure |-> {}, atoms |-> {},
     atomsAtAdd |-> {}, pH |-> 0, outname |-> <<>>, name |-> <<>>,
     rootname |-> <<>>, num |-> 0, cif_fname |-> <<>>, handle |-> 0,
     exit |-> 0 - 1, logged |-> FALSE, failedAt |-> "", trace |-> <<>>,
     probes |-> 0, renames |-> 0, renamedTo |-> <<>>, runNo |-> 1]

Elements == {"H", "C", "O"}

\* the structures of at most n atoms
Topologies(n) ==
    UNION {{{[id |-> i, element |-> f[i]] : i \in 1..k} :
                f \in [1..k -> Elements]} : k \in 0..n}

StemChars == {"a", ".", "/"}

Stems == UNION {[1..k -> StemChars] : k \in 0..MaxStem}

\* entry kinds: a regular file, a directory, or anything else isfile rejects
\* (FIFO, socket, device, dangling link, link to a directory)
Kinds == {"none", "reg", "dir", "special"}

\* the entry first found under the root path (n = 0) or its n-th backup name
Entry(kind, n) ==
    [kind |-> kind,
     data |-> IF kind = "reg" THEN <<"pre", n, 0>> ELSE Empty,
     ino |-> n]

NameOf(n) == IF n = 0 THEN Root ELSE BackupName(Root, n)

InitFS(rootKinds, backupKinds) ==
    \E rk \in rootKinds, bk \in [1..MaxBackups -> backupKinds],
       bd \in BOOLEAN :
        LET kindOf(n) == IF n = 0 THEN rk ELSE bk[n]
            present == {n \in 0..MaxBackups : kindOf(n) # "none"}
        IN  /\ bd \/ (ParentDir(Root) # <<>> /\ present \subseteq {0})
            /\ fs = [nm \in {NameOf(n) : n \in present} |->
                        LET n == CHOOSE i \in present : NameOf(i) = nm
                        IN  Entry(kindOf(n), n)]
            /\ dirs = {ParentDir(Root)} \cup
                      (IF bd THEN {ParentDir(BackupName(Root, 1))} ELSE {})

InitWith(structs, outputs, platforms, gpus, threads, topos, rootKinds, backupKinds, active) ==
    /\ cmd \in [structure : structs, output : outputs, platform : platforms]
    /\ env \in [CUDA_VISIBLE_DEVICES : gpus, SLURM_CPUS_PER_TASK : threads]
    /\ fileAtoms \in topos
    /\ InitFS(rootKinds, backupKinds)
    /\ nextIno = MaxBackups + 1
    /\ run = [p \in Procs |-> Fresh(IF p \in active THEN "platform" ELSE "off")]
    /\ fs0 = fs
    /\ raced = FALSE

Platform(name) == [some |-> TRUE, val |-> name]

A_PDB == <<"a">> \o PDB

DA_CIF == <<"d", "/", "a">> \o CIF

A_UPPER == <<"a", ".", "P", "D", "B">>

Methane == {[id |-> 1, element |-> "C"], [id |-> 2, element |-> "H"]}

\* one invocation, every kind of entry under the output path and its backups
Init ==
    InitWith({A_PDB, DA_CIF, A_UPPER},
             {NoneV, Some(<<"o">>), Some(<<"d", "/", "o">> \o CIF)},
             {NoPlatform, Platform("CPU")}, {NoneV}, {NoneV}, {Methane},
             {"none", "reg", "dir"}, Kinds, {1})

\* one invocation, many structure and output names
InitNames ==
    \/ InitWith({s \o e : s \in Stems,
                          e \in {<<>>, PDB, CIF, A_UPPER,
                                 <<".", "C", "I", "F">>, <<".", "p", "d">>}},
                {NoneV, Some(<<>>), Some(<<"o">>)},
                {NoPlatform}, {NoneV}, {NoneV}, {Methane},
                {"none", "reg"}, {"none"}, {1})
    \/ InitWith({A_PDB, DA_CIF},
                {NoneV} \cup {Some(s \o e) : s \in Stems,
                                e \in {<<>>, CIF, PDB, CIF \o <<".">>}},
                {NoPlatform}, {NoneV}, {NoneV}, {Methane},
                {"none", "reg"}, {"none"}, {1})

\* one invocation, every platform request and environment
InitPlatform ==
    InitWith({A_PDB, A_UPPER}, {NoneV},
             {NoPlatform, Platform(""), Platform("bogus")} \cup
                {Platform(n) : n \in KnownPlatforms},
             {NoneV, Some(<<>>), Some(<<"0">>), Some(<<"0", ",", "1">>)},
             {NoneV, Some(<<>>), Some(<<"4">>)},
             {Methane}, {"none", "reg"}, {"none"}, {1})

\* one invocation, every structure of at most MaxAtoms atoms
InitHydrogen ==
    InitWith({A_PDB, A_UPPER}, {NoneV}, {NoPlatform}, {NoneV}, {NoneV},
             Topologies(MaxAtoms), {"none", "reg"}, {"none"}, {1})

\* two invocations racing for one output path; only regular files around
InitConc ==
    InitWith({A_PDB, A_UPPER}, {NoneV, Some(<<"o">>)}, {NoPlatform},
             {NoneV}, {NoneV}, {Methane},
             {"none", "reg"}, {"none", "reg"}, Procs)

\* repeated runs, starting with nothing under the output path
InitSeq ==
    InitWith({A_PDB, DA_CIF, A_UPPER}, {NoneV, Some(<<"o">>)},
             {NoPlatform, Platform("CPU")}, {NoneV}, {NoneV},
             Topologies(MaxAtoms), {"none"}, {"none"}, {1})

\* the script is started again after a run that ended with status 0
Restart(p) ==
    /\ run[p].pc = "done"
    /\ run[p].runNo < MaxRuns
    /\ run' = [run EXCEPT ![p] =
                [Fresh("platform") EXCEPT !.runNo = run[p].runNo + 1]]
    /\ UNCHANGED <<cmd, env, fileAtoms, fs, dirs, nextIno, fs0, raced>>

Next ==
    \E p \in Procs :
        \/ ResolvePlatform(p)
        \/ SetProperties(p)
        \/ Dispatch(p)
        \/ ReadStructure(p)
        \/ LoadForcefield(p)
        \/ DeleteHydrogens(p)
        \/ AddHydrogens(p)
        \/ DeriveOutput(p)
        \/ GF_Check(p)
        \/ GF_Probe(p)
        \/ GF_Rename(p)
        \/ OpenOutput(p)
        \/ WriteOutput(p)

NextSeq == Next \/ \E p \in Procs : Restart(p)

Spec == Init /\ [][Next]_vars

SpecNames == InitNames /\ [][Next]_vars

SpecPlatform == InitPlatform /\ [][Next]_vars

SpecHydrogen == InitHydrogen /\ [][Next]_vars

SpecConc == InitConc /\ [][Next]_vars

SpecSeq == InitSeq /\ [][NextSeq]_vars

(***************************************************************************)
(* Vocabulary of the properties                                            *)
(***************************************************************************)
Range(seq) == {seq[i] : i \in 1..Len(seq)}

IsPrefix(a, b) == Len(a) <= Len(b) /\ SubSeq(b, 1, Len(a)) = a

\* invocation p has executed the step that starts at stage
Did(p, stage) == stage \in Range(run[p].trace)

\* get_filename is over for invocation p: it returned, or os.rename raised
GetFilenameOver(p) ==
    \/ run[p].pc = "open"
    \/ run[p].pc = "crashed" /\ run[p].failedAt = "gf_rename"

\* the backup numbers under which a regular file existed before the run
Occupied0 ==
    {n \in 1..(MaxBackups + 1) : isfile(fs0, BackupName(Root, n))}

\* the smallest n >= 1 with no regular file named '#<path>.<n>#' before the run
FirstFree0 ==
    CHOOSE n \in 1..(MaxBackups + 1) :
        /\ n \notin Occupied0
        /\ \A k \in 1..(n - 1) : k \in Occupied0

\* some name of the form '#<path>.<n>#' holds the entry e
UnderBackupName(e) ==
    \E n \in 1..(Cardinality(DOMAIN fs0) + 1) :
        /\ BackupName(Root, n) \in DOMAIN fs
        /\ fs[BackupName(Root, n)] = e

RegularFilesAndDirectoriesKept ==
    (isfile(fs0, Root) /\ run[1].pc = "done") =>
        /\ UnderBackupName(fs0[Root])
        /\ \A nm \in DOMAIN fs0 \ {Root} :
            fs0[nm].kind \in {"reg", "dir"} =>
                nm \in DOMAIN fs /\ fs[nm] = fs0[nm]
        /\ isfile(fs, Root)
        /\ fs[Root].data = OutputOf(1, 1)

(***************************************************************************)
(* C2 -- backup naming: when a regular file is at the output path,         *)
(* get_filename renames it to '#<path>.<n>#' for the smallest n >= 1 at    *)
(* which no file exists, and returns the original path, which is free at   *)
(* that moment.                                                            *)
(***************************************************************************)
C2_BackupNaming ==
    (isfile(fs0, Root) /\ GetFilenameOver(1)) =>
        /\ run[1].pc = "open"
        /\ run[1].renamedTo = BackupName(Root, FirstFree0)
        /\ BackupName(Root, FirstFree0) \in DOMAIN fs
        /\ fs[BackupName(Root, FirstFree0)] = fs0[Root]
        /\ run[1].cif_fname = Root
        /\ Root \notin DOMAIN fs

(***************************************************************************)
(* C3 -- format dispatch: extension '.pdb' selects the PDB parser, '.cif'  *)
(* the mmCIF parser; with any other extension the script logs an error and *)
(* exits with status 1 having parsed nothing, renamed nothing and written  *)
(* nothing.                                                                *)
(***************************************************************************)
C3_FormatDispatch ==
    (Did(1, "dispatch") \/ run[1].failedAt = "dispatch") =>
        /\ Fext = PDB =>
            run[1].parser = "PDBFile" /\ ~run[1].logged /\ Did(1, "dispatch")
        /\ Fext = CIF =>
            run[1].parser = "PDBxFile" /\ ~run[1].logged /\ Did(1, "dispatch")
        /\ Fext \notin {PDB, CIF} =>
            /\ run[1].pc = "exit1"
            /\ run[1].logged
            /\ run[1].exit = 1
            /\ ~Did(1, "read")
            /\ run[1].structure = {}
            /\ run[1].renames = 0
            /\ run[1].handle = 0
            /\ fs = fs0

C3_Witness ==
    /\ run[1].pc = "exit1"
    /\ EndsWith(cmd.structure, A_UPPER)
    /\ isfile(fs, Root)

(***************************************************************************)
(* C4 -- output file name.  As claimed: no --output gives                  *)
(* '<input without extension>_H.cif'; --output X gives X + '.cif' when X   *)
(* does not end in '.cif' and X itself when it does; the name always ends  *)
(* in '.cif'.                                                              *)
(***************************************************************************)
StructureStem == SubSeq(cmd.structure, 1, Len(cmd.structure) - Len(PDB))

C4_AsClaimed ==
    Did(1, "derive") =>
        /\ ~cmd.output.some => run[1].outname = StructureStem \o HCIF
        /\ (cmd.output.some /\ ~EndsWith(cmd.output.val, CIF)) =>
            run[1].outname = cmd.output.val \o CIF
        /\ (cmd.output.some /\ EndsWith(cmd.output.val, CIF)) =>
            run[1].outname = cmd.output.val
        /\ EndsWith(run[1].outname, CIF)

\* C4 amended: an empty --output value counts as no --output
C4_OutputName ==
    Did(1, "derive") =>
        /\ (~cmd.output.some \/ cmd.output.val = <<>>) =>
            run[1].outname = StructureStem \o HCIF
        /\ (cmd.output.some /\ cmd.output.val # <<>>
                /\ ~EndsWith(cmd.output.val, CIF)) =>
            run[1].outname = cmd.output.val \o CIF
        /\ (cmd.output.some /\ EndsWith(cmd.output.val, CIF)) =>
            run[1].outname = cmd.output.val
        /\ EndsWith(run[1].outname, CIF)

C4_Witness ==
    /\ Did(1, "derive")
    /\ cmd.output = Some(<<>>)
    /\ run[1].outname = <<"a">> \o HCIF

(***************************************************************************)
(* C5 -- platform properties.  As claimed: the CUDA platform gets the      *)
(* mixed-precision entry plus a device-index entry equal to                *)
(* CUDA_VISIBLE_DEVICES exactly when that variable is set; the CPU         *)
(* platform gets a thread-count entry equal to SLURM_CPUS_PER_TASK exactly *)
(* when that variable is set, and no precision or device entry; no         *)
(* platform gets no properties.                                            *)
(***************************************************************************)
Mixed == <<"CudaPrecision", <<"m", "i", "x", "e", "d">> >>

Keys(props) == {kv[1] : kv \in props}

\* the mapping the claim describes; fwdGpu and fwdCpu say whether the
\* environment variable is to be forwarded
PropertiesAsDescribed(props, fwdGpu, fwdCpu) ==
    /\ (cmd.platform.some /\ cmd.platform.val = "CUDA") =>
        /\ Mixed \in props
        /\ fwdGpu =>
            <<"DeviceIndex", env.CUDA_VISIBLE_DEVICES.val>> \in props
        /\ ~fwdGpu => "DeviceIndex" \notin Keys(props)
        /\ Cardinality(props) = Cardinality(Keys(props))
    /\ (cmd.platform.some /\ cmd.platform.val = "CPU") =>
        /\ fwdCpu =>
            <<"Threads", env.SLURM_CPUS_PER_TASK.val>> \in props
        /\ ~fwdCpu => "Threads" \notin Keys(props)
        /\ Keys(props) \subseteq {"Threads"}
        /\ Cardinality(props) <= 1
    /\ ~cmd.platform.some => props = {}

IsSet(v) == v.some

IsSetAndNotEmpty(v) == v.some /\ v.val # <<>>

C5_AsClaimed ==
    Did(1, "properties") =>
        PropertiesAsDescribed(run[1].properties,
                              IsSet(env.CUDA_VISIBLE_DEVICES),
                              IsSet(env.SLURM_CPUS_PER_TASK))

\* C5 amended: a variable set to the empty string is not forwarded
C5_PlatformProperties ==
    Did(1, "properties") =>
        PropertiesAsDescribed(run[1].properties,
                              IsSetAndNotEmpty(env.CUDA_VISIBLE_DEVICES),
                              IsSetAndNotEmpty(env.SLURM_CPUS_PER_TASK))

C5_Witness ==
    /\ Did(1, "properties")
    /\ cmd.platform = Platform("CUDA")
    /\ env.CUDA_VISIBLE_DEVICES = Some(<<>>)
    /\ run[1].properties = {Mixed}

(***************************************************************************)
(* C6 -- hydrogen normalisation: when addHydrogens is invoked the topology *)
(* holds no hydrogen and every non-hydrogen atom of the parsed structure,  *)
(* and pH is 7.0; so no hydrogen of the written output comes from the      *)
(* input.                                                                  *)
(***************************************************************************)
C6_HydrogensReplaced ==
    /\ (Did(1, "addH") \/ run[1].failedAt = "addH") =>
        /\ \A a \in run[1].atomsAtAdd : a.element # "H"
        /\ \A a \in fileAtoms : a.element # "H" => a \in run[1].atomsAtAdd
        /\ run[1].pH = 7
    /\ run[1].pc = "done" =>
        /\ \A a \in run[1].atoms : a.element = "H" => a \notin fileAtoms
        /\ \A a \in fileAtoms : a.element # "H" => a \in run[1].atoms

C6_Witness ==
    /\ run[1].pc = "done"
    /\ \A a \in fileAtoms : a.element = "H"
    /\ Cardinality(fileAtoms) = MaxAtoms
    /\ run[1].atoms # {}

(***************************************************************************)
(* C7 -- two invocations on one output path: the rename scheme is not safe *)
(* without locking.  Content is lost or a rename fails only when the       *)
(* invocations' file system calls interleave, and such an interleaving     *)
(* exists (the witness).                                                   *)
(***************************************************************************)
Holds(data) == \E nm \in DOMAIN fs : fs[nm].data = data

ContentLost ==
    \/ \E nm \in DOMAIN fs0 : fs0[nm].kind = "reg" /\ ~Holds(fs0[nm].data)
    \/ \E p \in Procs :
        run[p].pc = "done" /\ ~Holds(OutputOf(p, run[p].runNo))

RenameFailed ==
    \E p \in Procs : run[p].pc = "crashed" /\ run[p].failedAt = "gf_rename"

C7_UnsafeOnlyWhenInterleaved == (ContentLost \/ RenameFailed) => raced

C7_Witness ==
    /\ raced
    /\ \E nm \in DOMAIN fs0 : fs0[nm].kind = "reg" /\ ~Holds(fs0[nm].data)
    /\ \A p \in Procs : run[p].pc = "done"

C7_WitnessRenameFails ==
    /\ raced
    /\ RenameFailed

(***************************************************************************)
(* C8 -- fail-fast order: the steps run in the script's order, none twice; *)
(* the file system is touched only after hydrogen normalisation, so a      *)
(* failure in platform lookup, extension check, parsing, force field       *)
(* loading or hydrogen addition leaves the file system as it was.          *)
(***************************************************************************)
ScriptOrder ==
    <<"platform", "properties", "dispatch", "read", "forcefield", "delete",
      "addH", "derive", "gf_check", "open", "write">>

C8_FailFastOrder ==
    LET t == run[1].trace
        notRename(x) == x # "gf_rename"
    IN  /\ IsPrefix(SelectSeq(t, notRename), ScriptOrder)
        /\ \A i \in 1..Len(t) :
            t[i] = "gf_rename" => i > 1 /\ t[i - 1] = "gf_check"
        /\ fs # fs0 => Did(1, "addH")
        /\ (run[1].pc \in {"crashed", "exit1"}
                /\ run[1].failedAt \notin {"gf_rename", "open"}) =>
            /\ fs = fs0
            /\ run[1].failedAt \in
                {"platform", "dispatch", "read", "forcefield", "addH"}

C8_Witness ==
    /\ run[1].pc = "crashed"
    /\ run[1].failedAt = "addH"
    /\ isfile(fs, Root)

(***************************************************************************)
(* C9 -- repeated runs: starting with nothing at the output path, after k  *)
(* successful runs exactly k files exist: the output path holds run k's    *)
(* output and '#<path>.<i>#' holds run i's, for every i < k.               *)
(***************************************************************************)
C9_RepeatedRuns ==
    run[1].pc = "done" =>
        LET k == run[1].runNo
        IN  /\ DOMAIN fs = {Root} \cup {BackupName(Root, i) : i \in 1..(k - 1)}
            /\ Cardinality(DOMAIN fs) = k
            /\ fs[Root].data = OutputOf(1, k)
            /\ \A i \in 1..(k - 1) :
                fs[BackupName(Root, i)].data = OutputOf(1, i)
            /\ \A nm \in DOMAIN fs : fs[nm].kind = "reg"

C9_Witness ==
    /\ run[1].pc = "done"
    /\ run[1].runNo = MaxRuns
    /\ BackupName(Root, MaxRuns - 1) \in DOMAIN fs

(***************************************************************************)
(* C10 -- get_filename's cost: with no file at the path it returns the     *)
(* path at once and changes nothing; with a file there and backups 1..m    *)
(* occupied it makes m+1 probes and exactly one rename.                    *)
(***************************************************************************)
\* before the run, the only entries under backup names are regular files
\* under the numbers 1..m
ConsecutiveBackups0(m) ==
    /\ Occupied0 = 1..m
    /\ DOMAIN fs0 \ {Root} = {BackupName(Root, n) : n \in 1..m}

C10_ProbesAndRenames ==
    /\ (~isfile(fs0, Root) /\ run[1].pc = "open") =>
        /\ run[1].cif_fname = Root
        /\ run[1].probes = 0
        /\ run[1].renames = 0
        /\ fs = fs0
    /\ \A m \in 0..MaxBackups :
        (isfile(fs0, Root) /\ ConsecutiveBackups0(m) /\ GetFilenameOver(1)) =>
            /\ run[1].probes = m + 1
            /\ run[1].renames = 1

====
